---- MODULE Spec2Model ----
(***************************************************************************)
(* Model of the appointment-booking dialogue of src/main.py: the /signal   *)
(* handler, the session helpers over the Cosmos container, the slot        *)
(* fetcher, the next-available-date search and the booking client.         *)
(*                                                                         *)
(* Python values are modelled as follows.                                  *)
(*   str        a sequence of one-character strings                        *)
(*   None / x   the empty tuple <<>> / the one-element tuple <<x>>          *)
(*   dict       a function whose DOMAIN is the set of keys                 *)
(*   date       a day number (day 0 is 1 Jan of a leap year)               *)
(*   ISO UTC timestamp   minutes since 00:00 UTC of day 0                  *)
(***************************************************************************)
EXTENDS Integers, Sequences, FiniteSets, TLC

VARIABLES
    store,      \* the session container: user -> None | <<document>>
    today,      \* now.date() in Asia/Kolkata
    lastOp,     \* what the last step did (the handled request and its effects)
    probe,      \* the last evaluation of a helper on its own (SpecPure)
    inflight,   \* overlapping requests: invocation -> None | <<what it read>>
    posted,     \* the requests the booking API has received, in order
    before      \* the document an overlapping request found when it wrote

vars == <<store, today, lastOp, probe, inflight, posted, before>>

(* ------------------------------ bounds -------------------------------- *)
MaxApiSlots == 4       \* the scheduling API returns at most this many slots a day
TickSeconds == 900     \* the granularity of the passage of time

(* ------------------------------ CONFIG -------------------------------- *)
BOOKING_WINDOW_DAYS == 30
SESSION_TTL == 1800
IstOffsetMinutes == 330
EVENT_TYPE_ID == 3232034

None == <<>>
Some(x) == <<x>>

Users == {"u1", "u2"}

(* ------------------------------ strings ------------------------------- *)
Whitespace == {" ", "\t", "\n"}

\* the lower-case form of one character
LowerChar(c) ==
    CASE c = "A" -> "a" [] c = "B" -> "b" [] c = "C" -> "c" [] c = "D" -> "d"
      [] c = "E" -> "e" [] c = "F" -> "f" [] c = "G" -> "g" [] c = "H" -> "h"
      [] c = "I" -> "i" [] c = "J" -> "j" [] c = "K" -> "k" [] c = "L" -> "l"
      [] c = "M" -> "m" [] c = "N" -> "n" [] c = "O" -> "o" [] c = "P" -> "p"
      [] c = "Q" -> "q" [] c = "R" -> "r" [] c = "S" -> "s" [] c = "T" -> "t"
      [] c = "U" -> "u" [] c = "V" -> "v" [] c = "W" -> "w" [] c = "X" -> "x"
      [] c = "Y" -> "y" [] c = "Z" -> "z"
      [] OTHER -> c

\* str.lower()
Lower(s) == [i \in 1..Len(s) |-> LowerChar(s[i])]

RECURSIVE LStrip(_)
LStrip(s) == IF s # <<>> /\ Head(s) \in Whitespace THEN LStrip(Tail(s)) ELSE s

RECURSIVE RStrip(_)
RStrip(s) ==
    IF s # <<>> /\ s[Len(s)] \in Whitespace
    THEN RStrip(SubSeq(s, 1, Len(s) - 1))
    ELSE s

\* str.strip()
Strip(s) == RStrip(LStrip(s))

\* str(n) for the one-digit numbers the slot keys need
Digits == <<"1","2","3","4","5","6","7","8","9">>
Str(n) == <<Digits[n]>>

(* ------------------------- inbound messages --------------------------- *)
MsgName == <<" ","A","n","n">>
MsgTomorrow == <<"T","o","m","o","r","r","o","w">>
MsgFar == <<"i","n"," ","3","1"," ","d","a","y","s">>
MsgOne == <<"1">>
MsgTwo == <<"2">>
MsgYes == <<" ","Y","E","S">>
MsgNo == <<"N","o">>

Messages == {MsgName, MsgTomorrow, MsgFar, MsgOne, MsgTwo, MsgYes, MsgNo}

TextYes == <<"y","e","s">>
TextNo == <<"n","o">>
TextTomorrow == <<"t","o","m","o","r","r","o","w">>
TextFar == <<"i","n"," ","3","1"," ","d","a","y","s">>

\* What the users of the sequential specification send: u1 answers the name
\* and email prompts with one of two texts and sends any message afterwards,
\* u2 sends its name and nothing more.
Said(phone, stage) ==
    IF phone = "u2" THEN (IF stage = "ASK_NAME" THEN {MsgName} ELSE {})
    ELSE IF stage = "ASK_NAME" THEN {MsgName, MsgYes}
    ELSE IF stage = "ASK_EMAIL" THEN {MsgName, MsgNo}
    ELSE Messages

(* ------------------------------ dates --------------------------------- *)
MonthLens == <<31, 29, 31, 30, 31, 30, 31, 31, 30, 31, 30, 31>>

RECURSIVE MonthDayFrom(_, _)
MonthDayFrom(m, d) ==
    IF m < 12 /\ d >= MonthLens[m] THEN MonthDayFrom(m + 1, d - MonthLens[m])
    ELSE <<m, d + 1>>

MonthDay == [d \in 0..365 |-> MonthDayFrom(1, d)]

\* date.isoformat(): "YYYY-MM-DD" as <<year, month, day of month>>
IsoFormat(d) == <<2024, MonthDay[d][1], MonthDay[d][2]>>

\* datetime.fromisoformat(iso).astimezone(utc).astimezone(ist)
\*     .strftime("%d %b, %I:%M %p"): day of month, month, 12-hour clock, AM/PM
Label(iso) ==
    LET ist == iso + IstOffsetMinutes
        md == MonthDay[ist \div 1440]
        hh == (ist % 1440) \div 60
    IN  [day |-> md[2], month |-> md[1],
         hour |-> IF hh % 12 = 0 THEN 12 ELSE hh % 12,
         minute |-> ist % 60,
         ampm |-> IF hh < 12 THEN "AM" ELSE "PM"]

\* dateparser.parse(text, settings={RELATIVE_BASE: now, ...}): the library is
\* not part of the repository; these are the phrases of the model's messages.
\* It ignores case and surrounding blanks and returns None for other text.
DateParser(text, now) ==
    LET t == Lower(Strip(text))
    IN  IF t = TextTomorrow THEN Some(now + 1)
        ELSE IF t = TextFar THEN Some(now + 31)
        ELSE None

parse_user_date(text, now) ==
    LET parsed == DateParser(text, now)
    IN  IF parsed = None THEN None
        ELSE IF parsed[1] < now THEN None
        ELSE IF parsed[1] > now + BOOKING_WINDOW_DAYS THEN None
        ELSE Some(parsed[1])

(* ------------------- the scheduling API (environment) ------------------ *)
EmptyDict == <<>>

\* dict.get(key, default)
Get(d, k, default) == IF k \in DOMAIN d THEN d[k] ELSE default

\* the UTC start of the k-th bookable window of IST day d: 09:00 IST onwards
SlotStart(d, k) == d * 1440 + 540 + 30 * (k - 1) - IstOffsetMinutes

\* A calendar: the days that have bookable windows, how many each has, the
\* days for which the API answers with an error status, and whether the body
\* carries the "data" key at all.
Calendar(avail, n, down, nodata) ==
    [avail |-> avail, n |-> n, down |-> down, nodata |-> nodata]

\* the calendars a request for day r can meet
Worlds(r) ==
    { Calendar({r}, 1, {}, FALSE),
      Calendar({r, r + 1}, MaxApiSlots, {}, FALSE),
      Calendar({r + 1, r + BOOKING_WINDOW_DAYS}, MaxApiSlots, {}, FALSE),
      Calendar({r + BOOKING_WINDOW_DAYS}, 1, {}, FALSE),
      Calendar({r + BOOKING_WINDOW_DAYS + 1}, 1, {}, FALSE),
      Calendar({}, 1, {}, FALSE),
      Calendar({r, r + 1}, 1, {r}, FALSE),
      Calendar({r}, 1, {r}, FALSE),
      Calendar({r}, 1, {}, TRUE) }

\* GET /slots?start=date_str&end=date_str answered by calendar w: the body
\* lists the windows of the one day asked for, when it has any
ApiSlots(w, d) ==
    [status_code |-> IF d \in w.down THEN 500 ELSE 200,
     json |-> IF w.nodata THEN [k \in {"status"} |-> "success"]
              ELSE [k \in {"data"} |->
                      [ds \in (IF d \in w.avail THEN {IsoFormat(d)} ELSE {}) |->
                          [i \in 1..w.n |-> [start |-> SlotStart(d, i)]]]]]

(* --------------------------- slot fetcher ------------------------------ *)
\* the loop of get_slots_for_date over slots[:3]
RECURSIVE SlotMapLoop(_, _)
SlotMapLoop(slots, slot_map) ==
    IF slots = <<>> THEN slot_map
    ELSE LET iso_utc == Head(slots).start
             key == Str(Cardinality(DOMAIN slot_map) + 1)
             entry == [iso |-> iso_utc, label |-> Label(iso_utc)]
         IN  SlotMapLoop(Tail(slots),
                 [k \in DOMAIN slot_map \cup {key} |->
                     IF k = key THEN entry ELSE slot_map[k]])

\* get_slots_for_date without the slice slots[:3]
SlotsUncapped(res, date_str) ==
    IF res.status_code # 200 THEN EmptyDict
    ELSE SlotMapLoop(Get(Get(res.json, "data", EmptyDict), date_str, <<>>), EmptyDict)

\* get_slots_for_date, given the API's answer res to the request for date_str
SlotsFromResponse(res, date_str) ==
    IF res.status_code # 200 THEN EmptyDict
    ELSE LET slots == Get(Get(res.json, "data", EmptyDict), date_str, <<>>)
         IN  SlotMapLoop(SubSeq(slots, 1, IF Len(slots) < 3 THEN Len(slots) ELSE 3),
                         EmptyDict)

get_slots_for_date(w, target_date) ==
    SlotsFromResponse(ApiSlots(w, target_date), IsoFormat(target_date))

\* find_next_available_date: the loop for i in range(1, BOOKING_WINDOW_DAYS + 1)
RECURSIVE FindNextFrom(_, _, _)
FindNextFrom(w, start_date, i) ==
    IF i > BOOKING_WINDOW_DAYS THEN [date |-> None, slots |-> EmptyDict]
    ELSE LET next_date == start_date + i
             slots == get_slots_for_date(w, next_date)
         IN  IF slots # EmptyDict THEN [date |-> Some(next_date), slots |-> slots]
             ELSE FindNextFrom(w, start_date, i + 1)

\* the search started at range(0, ...): the start date itself is a candidate
FindNextInclusive(w, start_date) == FindNextFrom(w, start_date, 0)

\* the search started at range(2, ...): the day after the start date is skipped
FindNextSkipsDay(w, start_date) == FindNextFrom(w, start_date, 2)

find_next_available_date(w, start_date) == FindNextFrom(w, start_date, 1)

(* --------------------------- booking client ---------------------------- *)
\* what POST /bookings can answer: an error status, an empty body, a body
\* without "data", and "data" with or without start, meetingUrl, location
BookingBodies ==
    { EmptyDict,
      [k \in {"status"} |-> "error"],
      [k \in {"data"} |-> [f \in {"start", "meetingUrl"} |-> "v"]],
      [k \in {"data"} |-> [f \in {"start", "location"} |-> "v"]],
      [k \in {"data"} |-> [f \in {"start"} |-> "v"]],
      [k \in {"data"} |-> [f \in {"meetingUrl"} |-> "v"]] }

BookingResponses ==
    { [status_code |-> c, json |-> b] : c \in {200, 201}, b \in BookingBodies }
    \cup { [status_code |-> 400, json |-> [k \in {"status"} |-> "error"]] }

\* a request that names the booking it is for
PayloadWithKey(name, email, start_iso_utc) ==
    [start |-> start_iso_utc,
     eventTypeId |-> EVENT_TYPE_ID,
     attendee |-> [name |-> name, email |-> email, timeZone |-> "Asia/Kolkata"],
     idempotencyKey |-> <<name, email, start_iso_utc>>]

\* the request create_booking posts
Payload(name, email, start_iso_utc) ==
    [start |-> start_iso_utc,
     eventTypeId |-> EVENT_TYPE_ID,
     attendee |-> [name |-> name, email |-> email, timeZone |-> "Asia/Kolkata"]]

\* create_booking, given the API's answer res: None or the parsed body
create_booking(res) ==
    IF res.status_code \notin {200, 201} THEN None ELSE Some(res.json)

(* ------------------------------ replies -------------------------------- *)
\* response(action, message, status="PENDING", meta=None)
response(action, message, status) ==
    [action |-> action, message |-> message, status |-> status, meta |-> EmptyDict]

Pending(message) == response("SEND_MESSAGE", message, "PENDING")

(* --------------------------- session helpers --------------------------- *)
\* the state a request starts from when get_session returns None
FreshState ==
    [name |-> None, email |-> None, date |-> None, slots |-> None,
     selected_slot |-> None, stage |-> "ASK_NAME"]

\* get_session(phone): the stored state, or None
get_session(phone) == IF store[phone] = None THEN None ELSE Some(store[phone][1].state)

\* an upsert under one id for every phone
SaveSessionShared(st, phone, state) ==
    [u \in DOMAIN st |-> Some([state |-> state, age |-> 0])]

\* save_session(phone, state): upsert, which restarts the document's ttl
save_session(st, phone, state) ==
    [st EXCEPT ![phone] = Some([state |-> state, age |-> 0])]

\* delete_session(phone): no error when the document is absent
delete_session(st, phone) == [st EXCEPT ![phone] = None]

(* ---------------------------- signal_handler --------------------------- *)
\* The outcome of one request: the state the handler passes to save_session
\* (op = "save"), whether it deletes the session (op = "delete") or leaves the
\* store alone (op = "none"), the booking request it posted (or None), the
\* reply (None when the handler raises), and which API answers it consulted.
Outcome(state, op, call, reply, usedWorld, usedBooking) ==
    [state |-> state, op |-> op, call |-> call, reply |-> reply,
     usedWorld |-> usedWorld, usedBooking |-> usedBooking]

\* STEP 1: NAME
StepName(state, message) ==
    Outcome([state EXCEPT !.name = Some(Strip(message)), !.stage = "ASK_EMAIL"],
            "save", None, Some(Pending("ask email")), FALSE, FALSE)

\* the e-mail reply written over the name as well
StepEmailOverwritesName(state, message) ==
    Outcome([state EXCEPT !.name = Some(Strip(message)),
                          !.email = Some(Strip(message)), !.stage = "ASK_DATE"],
            "save", None, Some(Pending("ask date")), FALSE, FALSE)

\* STEP 2: EMAIL
StepEmail(state, message) ==
    Outcome([state EXCEPT !.email = Some(Strip(message)), !.stage = "ASK_DATE"],
            "save", None, Some(Pending("ask date")), FALSE, FALSE)

\* STEP 3: DATE, the date was not understood or lies outside the window
DateNotUnderstood(state) ==
    Outcome(state, "none", None, Some(Pending("date not understood")), FALSE, FALSE)

\* STEP 3: DATE, neither the date nor the days searched after it have slots
NoAvailability(state) ==
    Outcome(state, "none", None, Some(Pending("no availability")), TRUE, FALSE)

\* STEP 3: DATE, the date and its slots are stored
StoreSlots(state, date, slots, message) ==
    Outcome([state EXCEPT !.date = Some(IsoFormat(date)),
                          !.slots = Some(slots),
                          !.stage = "ASK_SLOT"],
            "save", None, Some(Pending(message)), TRUE, FALSE)

\* STEP 3: DATE
StepDate(state, message, now, w) ==
    LET selected_date == parse_user_date(message, now)
    IN  IF selected_date = None THEN DateNotUnderstood(state)
        ELSE
        LET slots == get_slots_for_date(w, selected_date[1])
        IN  IF slots = EmptyDict
            THEN LET next == find_next_available_date(w, selected_date[1])
                 IN  IF next.date = None THEN NoAvailability(state)
                     ELSE StoreSlots(state, next.date[1], next.slots,
                                     "next available date slots")
            ELSE StoreSlots(state, selected_date[1], slots, "available slots")

\* an invalid choice taken as the first slot
InvalidChoiceTakesFirst(state) ==
    Outcome([state EXCEPT !.selected_slot = Some(state.slots[1][<<"1">>]),
                          !.stage = "CONFIRM_BOOKING"],
            "save", None, Some(Pending("please confirm")), FALSE, FALSE)

\* STEP 4: SLOT, the reply is no key of the stored slots
InvalidChoice(state) ==
    Outcome(state, "none", None, Some(Pending("invalid choice")), FALSE, FALSE)

\* a choice that keeps the slot selected before the "no"
ChooseSlotKeepsFirst(state, text) ==
    Outcome([state EXCEPT !.selected_slot = IF state.selected_slot # None
                                            THEN state.selected_slot
                                            ELSE Some(state.slots[1][text]),
                          !.stage = "CONFIRM_BOOKING"],
            "save", None, Some(Pending("please confirm")), FALSE, FALSE)

\* STEP 4: SLOT, the reply is a key of the stored slots
ChooseSlot(state, text) ==
    Outcome([state EXCEPT !.selected_slot = Some(state.slots[1][text]),
                          !.stage = "CONFIRM_BOOKING"],
            "save", None, Some(Pending("please confirm")), FALSE, FALSE)

\* STEP 4: SLOT
StepSlot(state, text) ==
    IF text \notin DOMAIN state.slots[1] THEN InvalidChoice(state)
    ELSE ChooseSlot(state, text)

\* STEP 5: CONFIRMATION, the reply is "no"
ConfirmNo(state) ==
    Outcome([state EXCEPT !.stage = "ASK_DATE"], "save", None,
            Some(Pending("ask new date")), FALSE, FALSE)

\* any reply other than "yes" taken as "no"
ConfirmOtherBacktracks(state) ==
    Outcome([state EXCEPT !.stage = "ASK_DATE"], "save", None,
            Some(Pending("ask new date")), FALSE, FALSE)

\* any reply other than "no" taken as "yes"
ConfirmOtherBooks(state) ==
    Outcome(state, "none",
            Some(Payload(state.name[1], state.email[1], state.selected_slot[1].iso)),
            Some(Pending("booking failed")), FALSE, TRUE)

\* STEP 5: CONFIRMATION, the reply is neither "no" nor "yes"
ConfirmOther(state) ==
    Outcome(state, "none", None, Some(Pending("reply yes or no")), FALSE, FALSE)

\* a failed booking answered with status BOOKED
BookingFailedBooked(state, call) ==
    Outcome(state, "none", call,
            Some(response("SEND_MESSAGE", "booking failed", "BOOKED")), FALSE, TRUE)

\* a failed booking that deletes the session
BookingFailedDeletes(state, call) ==
    Outcome(state, "delete", call, Some(Pending("booking failed")), FALSE, TRUE)

\* STEP 5: CONFIRMATION, create_booking returned None or an empty body
BookingFailed(state, call) ==
    Outcome(state, "none", call, Some(Pending("booking failed")), FALSE, TRUE)

\* a confirmed booking that leaves the session in place
BookingReturnedKeeps(state, call, booking) ==
    IF "data" \notin DOMAIN booking THEN Outcome(state, "none", call, None, FALSE, TRUE)
    ELSE IF "start" \notin DOMAIN booking["data"]
    THEN Outcome(state, "none", call, None, FALSE, TRUE)
    ELSE Outcome(state, "none", call,
                 Some(response("SEND_MESSAGE", "appointment confirmed", "BOOKED")),
                 FALSE, TRUE)

\* STEP 5: CONFIRMATION, create_booking returned a body: booking["data"] raises
\* KeyError without "data", start_utc.replace raises AttributeError when
\* data.get("start") is None; otherwise the session is deleted
BookingReturned(state, call, booking) ==
    IF "data" \notin DOMAIN booking THEN Outcome(state, "none", call, None, FALSE, TRUE)
    ELSE IF "start" \notin DOMAIN booking["data"]
    THEN Outcome(state, "none", call, None, FALSE, TRUE)
    ELSE Outcome(state, "delete", call,
                 Some(response("SEND_MESSAGE", "appointment confirmed", "BOOKED")),
                 FALSE, TRUE)

\* STEP 5: CONFIRMATION
StepConfirm(state, text, res) ==
    IF text = TextNo THEN ConfirmNo(state)
    ELSE IF text # TextYes THEN ConfirmOther(state)
    ELSE
    LET call == Some(Payload(state.name[1], state.email[1], state.selected_slot[1].iso))
        booking == create_booking(res)
    IN  IF booking = None \/ booking[1] = EmptyDict THEN BookingFailed(state, call)
        ELSE BookingReturned(state, call, booking[1])

\* the generic reply with the session dropped, so that the next message starts over
StartAgainResets(state) ==
    Outcome(state, "delete", None, Some(Pending("start again")), FALSE, FALSE)

\* the stage is none of the five: the generic reply, and the store is left alone
StartAgain(state) ==
    Outcome(state, "none", None, Some(Pending("start again")), FALSE, FALSE)

\* signal_handler(req), given the state loaded from the store (or the fresh
\* one), the clock and the answers of the two APIs
signal_handler(state, message, now, w, res) ==
    LET text == Lower(Strip(message))
    IN  IF state.stage = "ASK_NAME" THEN StepName(state, message)
        ELSE IF state.stage = "ASK_EMAIL" THEN StepEmail(state, message)
        ELSE IF state.stage = "ASK_DATE" THEN StepDate(state, message, now, w)
        ELSE IF state.stage = "ASK_SLOT" THEN StepSlot(state, text)
        ELSE IF state.stage = "CONFIRM_BOOKING" THEN StepConfirm(state, text, res)
        ELSE StartAgain(state)

(* ------------------------------ actions -------------------------------- *)
NoWorld == [avail |-> {}, n |-> 0, down |-> {}, nodata |-> FALSE]
NoBooking == [status_code |-> 0, json |-> EmptyDict]

Idle ==
    [kind |-> "idle", user |-> "", message |-> <<>>, stage |-> "", op |-> "none",
     call |-> None, reply |-> None, world |-> NoWorld, booking |-> NoBooking]

NoProbe == [fn |-> "none", arg |-> <<>>, out |-> <<>>]

\* the invocations of the handler that may overlap
Invocations == {"a", "b"}
NoneInFlight == [i \in Invocations |-> None]

Init ==
    /\ store = [u \in Users |-> None]
    /\ today = 45
    /\ lastOp = Idle
    /\ probe = NoProbe
    /\ inflight = NoneInFlight
    /\ posted = <<>>
    /\ before = None

\* POST /signal {phone, message}: one request handled from its session read to
\* its reply, with the calendar w and the booking answer res of that moment
Handle(phone, message, w, res) ==
    LET loaded == get_session(phone)
        state == IF loaded = None THEN FreshState ELSE loaded[1]
        out == signal_handler(state, message, today, w, res)
    IN  /\ store' = IF out.op = "save" THEN save_session(store, phone, out.state)
                    ELSE IF out.op = "delete" THEN delete_session(store, phone)
                    ELSE store
        /\ lastOp' = [kind |-> "handle", user |-> phone, message |-> message,
                      stage |-> state.stage, op |-> out.op, call |-> out.call,
                      reply |-> out.reply,
                      world |-> IF out.usedWorld THEN w ELSE NoWorld,
                      booking |-> IF out.usedBooking THEN res ELSE NoBooking]
        /\ UNCHANGED <<today, probe, inflight, posted, before>>

\* the stage the next request of phone is dispatched on
StageOf(phone) == IF store[phone] = None THEN "ASK_NAME" ELSE store[phone][1].state.stage

Request ==
    \E phone \in Users, message \in Messages :
        /\ message \in Said(phone, StageOf(phone))
        /\ \E w \in (IF StageOf(phone) = "ASK_DATE"
                          /\ parse_user_date(message, today) # None
                       THEN Worlds(parse_user_date(message, today)[1])
                       ELSE {NoWorld}),
              res \in (IF StageOf(phone) = "CONFIRM_BOOKING"
                            /\ Lower(Strip(message)) = TextYes
                         THEN BookingResponses ELSE {NoBooking}) :
               Handle(phone, message, w, res)

\* TickSeconds pass: every document ages, and the container drops the ones
\* whose ttl (SESSION_TTL seconds since the last upsert) has run out
Tick ==
    /\ \E u \in Users : store[u] # None
    /\ store' = [u \in Users |->
                    IF store[u] = None THEN None
                    ELSE IF store[u][1].age + TickSeconds >= SESSION_TTL THEN None
                    ELSE Some([store[u][1] EXCEPT !.age = @ + TickSeconds])]
    /\ lastOp' = [Idle EXCEPT !.kind = "tick"]
    /\ UNCHANGED <<today, probe, inflight, posted, before>>

Next == Request \/ Tick

Spec == Init /\ [][Next]_vars

(* ------------- the slot fetcher and the search on their own ------------ *)
\* the answers GET /slots is probed with: any status, a body without "data",
\* and "data" for the day asked for, the day after it, both or neither, each
\* with up to MaxApiSlots windows in any order
ProbeDay == 58
ProbeStarts == {SlotStart(ProbeDay, k) : k \in 1..3}

RECURSIVE SlotLists(_)
SlotLists(n) ==
    IF n = 0 THEN {<<>>}
    ELSE SlotLists(n - 1)
         \cup {Append(l, [start |-> t]) :
                 l \in {x \in SlotLists(n - 1) : Len(x) = n - 1}, t \in ProbeStarts}

ProbeBodies ==
    {[k \in {"status"} |-> "success"]}
    \cup {[k \in {"data"} |-> [ds \in {IsoFormat(ProbeDay)} |-> l]] :
            l \in SlotLists(MaxApiSlots)}
    \cup {[k \in {"data"} |-> [ds \in K |-> <<[start |-> SlotStart(ProbeDay + 1, 1)]>>]] :
            K \in SUBSET {IsoFormat(ProbeDay + 1)}}

ProbeResponses == {[status_code |-> c, json |-> b] : c \in {200, 404, 500}, b \in ProbeBodies}

\* the calendars the search is probed with, around the start day
ProbeWorlds ==
    {Calendar({ProbeDay + o : o \in S}, n, dn, FALSE) :
        S \in SUBSET {0, 1, 2, BOOKING_WINDOW_DAYS, BOOKING_WINDOW_DAYS + 1},
        n \in {1, MaxApiSlots},
        dn \in {{}, {ProbeDay + 1}}}

InitPure ==
    /\ store = [u \in Users |-> None]
    /\ today = 45
    /\ lastOp = Idle
    /\ probe = NoProbe
    /\ inflight = NoneInFlight
    /\ posted = <<>>
    /\ before = None

\* get_slots_for_date(ProbeDay) when the API answers res
ProbeSlots ==
    \E res \in ProbeResponses :
        /\ probe' = [fn |-> "get_slots_for_date", arg |-> res,
                     out |-> SlotsFromResponse(res, IsoFormat(ProbeDay))]
        /\ UNCHANGED <<store, today, lastOp, inflight, posted, before>>

\* find_next_available_date(ProbeDay) over calendar w
ProbeFindNext ==
    \E w \in ProbeWorlds :
        /\ probe' = [fn |-> "find_next_available_date", arg |-> w,
                     out |-> find_next_available_date(w, ProbeDay)]
        /\ UNCHANGED <<store, today, lastOp, inflight, posted, before>>

NextPure == ProbeSlots \/ ProbeFindNext

SpecPure == InitPure /\ [][NextPure]_vars

(* ------------------ a document with an unknown stage ------------------- *)
\* The container outlives the process: a document written by another version
\* of the handler, or edited by hand, can hold a stage signal_handler does not
\* know.  SpecWedge starts with such a document for u1 and runs the requests
\* and the clock of Spec.
KnownStages == {"ASK_NAME", "ASK_EMAIL", "ASK_DATE", "ASK_SLOT", "CONFIRM_BOOKING"}
UnknownStages == {"BOOKED", "ask_name"}

InitWedge ==
    /\ \E s \in UnknownStages :
          store = [u \in Users |->
                     IF u = "u1"
                     THEN Some([state |-> [FreshState EXCEPT !.stage = s], age |-> 0])
                     ELSE None]
    /\ today = 45
    /\ lastOp = Idle
    /\ probe = NoProbe
    /\ inflight = NoneInFlight
    /\ posted = <<>>
    /\ before = None

SpecWedge == InitWedge /\ [][Next]_vars

(* ------------------------ overlapping requests ------------------------- *)
\* Nothing orders two invocations of signal_handler for one phone: each reads
\* the session (get_session), works on its own copy, and only later upserts or
\* deletes the document.  Here an invocation is split into these two steps, for
\* a user who answers the prompt of the stage the request finds (a repeated
\* delivery is the same message read twice), one calendar and two answers of
\* the booking API.
MaxPosted == 2     \* the booking API is sent at most this many requests

RaceSaid(phone, stage) ==
    IF phone = "u2" THEN (IF stage = "ASK_NAME" THEN {MsgName} ELSE {})
    ELSE IF stage = "ASK_NAME" THEN {MsgName}
    ELSE IF stage = "ASK_EMAIL" THEN {MsgNo}
    ELSE IF stage = "ASK_DATE" THEN {MsgTomorrow}
    ELSE IF stage = "ASK_SLOT" THEN {MsgOne}
    ELSE {MsgYes, MsgNo}

RaceWorlds(r) == {Calendar({r}, 2, {}, FALSE)}

RaceBookings ==
    { [status_code |-> 201,
       json |-> [k \in {"data"} |-> [f \in {"start", "meetingUrl"} |-> "v"]]],
      [status_code |-> 200, json |-> EmptyDict] }

\* invocation i starts: state = get_session(phone) or the default state
Begin(i, phone, message) ==
    /\ inflight[i] = None
    /\ LET loaded == get_session(phone)
           state == IF loaded = None THEN FreshState ELSE loaded[1]
       IN  /\ message \in RaceSaid(phone, state.stage)
           /\ inflight' = [inflight EXCEPT
                             ![i] = Some([phone |-> phone, message |-> message,
                                          state |-> state])]
    /\ lastOp' = [Idle EXCEPT !.kind = "begin"]
    /\ before' = None
    /\ UNCHANGED <<store, today, probe, posted>>

\* the rest of the handler for a request of phone that read state: the API
\* calls, then save_session or delete_session on whatever the store holds now
Served(phone, message, state, w, res) ==
    LET out == signal_handler(state, message, today, w, res)
    IN  /\ out.call # None => Len(posted) < MaxPosted
        /\ store' = IF out.op = "save" THEN save_session(store, phone, out.state)
                    ELSE IF out.op = "delete" THEN delete_session(store, phone)
                    ELSE store
        /\ lastOp' = [kind |-> "handle", user |-> phone, message |-> message,
                      stage |-> state.stage, op |-> out.op, call |-> out.call,
                      reply |-> out.reply,
                      world |-> IF out.usedWorld THEN w ELSE NoWorld,
                      booking |-> IF out.usedBooking THEN res ELSE NoBooking]
        /\ posted' = IF out.call = None THEN posted
                     ELSE Append(posted, [payload |-> out.call[1],
                                          status_code |-> res.status_code])
        /\ before' = store[phone]

\* invocation i completes on the state it read
Finish(i, w, res) ==
    /\ inflight[i] # None
    /\ Served(inflight[i][1].phone, inflight[i][1].message, inflight[i][1].state, w, res)
    /\ inflight' = [inflight EXCEPT ![i] = None]
    /\ UNCHANGED <<today, probe>>

Arrive == \E i \in Invocations, phone \in Users, message \in Messages : Begin(i, phone, message)

Complete ==
    \E i \in Invocations :
        /\ inflight[i] # None
        /\ \E w \in (IF inflight[i][1].state.stage = "ASK_DATE"
                       THEN RaceWorlds(parse_user_date(inflight[i][1].message, today)[1])
                       ELSE {NoWorld}),
              res \in (IF inflight[i][1].state.stage = "CONFIRM_BOOKING"
                            /\ Lower(Strip(inflight[i][1].message)) = TextYes
                         THEN RaceBookings ELSE {NoBooking}) :
               Finish(i, w, res)

NextRace == Arrive \/ Complete

SpecRace == Init /\ [][NextRace]_vars

(* ------------- requests one at a time, bookings recorded --------------- *)
\* u1 gives one name and one e-mail and sends any message afterwards
RetrySaid(phone, stage) ==
    IF phone = "u1" /\ stage \notin {"ASK_NAME", "ASK_EMAIL"} THEN Messages
    ELSE RaceSaid(phone, stage)

\* one request handled from its session read to its reply, as in Handle, with
\* the requests the booking API receives recorded in posted
Serve(phone, message, w, res) ==
    LET loaded == get_session(phone)
        state == IF loaded = None THEN FreshState ELSE loaded[1]
    IN  /\ message \in RetrySaid(phone, state.stage)
        /\ Served(phone, message, state, w, res)
        /\ UNCHANGED <<today, probe, inflight>>

\* the requested day has two slots, or only the day after it has one
RetryWorlds(r) ==
    {Calendar({r}, 2, {}, FALSE), Calendar({r + 1}, 1, {}, FALSE)}

NextRetry ==
    \E phone \in Users, message \in Messages :
        \E w \in (IF StageOf(phone) = "ASK_DATE"
                       /\ parse_user_date(message, today) # None
                    THEN RetryWorlds(parse_user_date(message, today)[1])
                    ELSE {NoWorld}),
           res \in (IF StageOf(phone) = "CONFIRM_BOOKING"
                         /\ Lower(Strip(message)) = TextYes
                      THEN RaceBookings ELSE {NoBooking}) :
            Serve(phone, message, w, res)

SpecRetry == Init /\ [][NextRetry]_vars

(* ============================== claims ================================= *)
\* the session stored for phone, when there is one
Session(phone) == store[phone][1].state

Handled(op) == op.kind = "handle"

StageEdges ==
    { <<"ASK_NAME", "ASK_EMAIL">>, <<"ASK_EMAIL", "ASK_DATE">>,
      <<"ASK_DATE", "ASK_SLOT">>, <<"ASK_SLOT", "CONFIRM_BOOKING">>,
      <<"CONFIRM_BOOKING", "ASK_DATE">> }

\* C1: while a user's session exists its stage changes only along
\* ASK_NAME->ASK_EMAIL->ASK_DATE->ASK_SLOT->CONFIRM_BOOKING and
\* CONFIRM_BOOKING->ASK_DATE, the last only when that user replied "no"
\* (a user without a session is at ASK_NAME).
C1_StageEdges ==
    [][\A u \in Users :
          (store'[u] # None /\ store'[u][1].state.stage # StageOf(u)) =>
              /\ <<StageOf(u), store'[u][1].state.stage>> \in StageEdges
              /\ Handled(lastOp') /\ lastOp'.user = u
              /\ StageOf(u) = "CONFIRM_BOOKING" => lastOp'.message = MsgNo]_vars

C1_Witness ==
    /\ Handled(lastOp) /\ lastOp.stage = "CONFIRM_BOOKING" /\ lastOp.message = MsgNo
    /\ store[lastOp.user] # None
    /\ Session(lastOp.user).stage = "ASK_DATE"

NonEmpty(slots) == slots # None /\ slots[1] # EmptyDict

\* C2: a stored session has slots only in stage ASK_SLOT or CONFIRM_BOOKING;
\* the session saved after "no" in CONFIRM_BOOKING has its slots cleared.
C2_SlotsOnlyWhileChoosing ==
    \A u \in Users :
        (store[u] # None /\ NonEmpty(Session(u).slots)) =>
            Session(u).stage \in {"ASK_SLOT", "CONFIRM_BOOKING"}

\* the booking API accepted the request and the client returned its body
BookingSucceeded(res) == res.status_code \in {200, 201} /\ res.json # EmptyDict

\* create_booking returned None
BookingRefused(res) == res.status_code \notin {0, 200, 201}

ConfirmedYes(op) ==
    Handled(op) /\ op.stage = "CONFIRM_BOOKING" /\ op.message = MsgYes

\* C3: the handler deletes the session exactly on the requests handled in
\* CONFIRM_BOOKING with "yes" for which the booking client succeeded, and
\* the user is then back at ASK_NAME.
C3_DeleteOnSuccess ==
    Handled(lastOp) =>
        /\ lastOp.op = "delete" <=> (ConfirmedYes(lastOp) /\ BookingSucceeded(lastOp.booking))
        /\ lastOp.op = "delete" =>
              store[lastOp.user] = None /\ StageOf(lastOp.user) = "ASK_NAME"

\* the requests C4 is about: a date that is not understood or lies outside
\* the window, a reply that is no key of the stored slots, a reply other
\* than yes/no to the confirmation
InvalidInput(op, st) ==
    /\ Handled(op)
    /\ st[op.user] # None
    /\ \/ op.stage = "ASK_DATE" /\ op.message \in Messages \ {MsgTomorrow}
       \/ op.stage = "ASK_SLOT"
            /\ op.message \notin DOMAIN st[op.user][1].state.slots[1]
       \/ op.stage = "CONFIRM_BOOKING" /\ op.message \notin {MsgYes, MsgNo}

\* C4: a request with an invalid input leaves the store as it was, posts no
\* booking and is answered PENDING, every time it is sent.
C4_InvalidInputNoChange ==
    [][InvalidInput(lastOp', store) =>
          /\ store' = store
          /\ lastOp'.call = None
          /\ lastOp'.reply # None /\ lastOp'.reply[1].status = "PENDING"]_vars

C4_Witness ==
    /\ Handled(lastOp) /\ lastOp.stage = "ASK_SLOT" /\ lastOp.message = MsgTwo
    /\ lastOp.op = "none"
    /\ store[lastOp.user] # None /\ Session(lastOp.user).stage = "ASK_SLOT"
    /\ store[lastOp.user][1].age > 0

C6_NeverRaises ==
    Handled(lastOp) =>
        /\ lastOp.reply # None
        /\ (ConfirmedYes(lastOp) /\ lastOp.booking.status_code \in {200, 201}) =>
              lastOp.op = "delete" /\ lastOp.reply[1].status = "BOOKED"

\* C7: when the booking client returns failure for a "yes" in
\* CONFIRM_BOOKING the store is left as it was and the reply is PENDING, and
\* a "yes" that follows posts the same name, email and slot again.
C7_FailureKeepsSession ==
    [][/\ (ConfirmedYes(lastOp') /\ BookingRefused(lastOp'.booking)) =>
            /\ store' = store
            /\ store[lastOp'.user] # None
            /\ Session(lastOp'.user).stage = "CONFIRM_BOOKING"
            /\ lastOp'.reply # None /\ lastOp'.reply[1].status = "PENDING"
            /\ lastOp'.call =
                  Some(Payload(Session(lastOp'.user).name[1],
                               Session(lastOp'.user).email[1],
                               Session(lastOp'.user).selected_slot[1].iso))
       /\ (/\ ConfirmedYes(lastOp) /\ BookingRefused(lastOp.booking)
           /\ ConfirmedYes(lastOp') /\ lastOp'.user = lastOp.user) =>
            lastOp'.call # None /\ lastOp'.call = lastOp.call]_vars

C7_Witness ==
    /\ ConfirmedYes(lastOp) /\ BookingRefused(lastOp.booking)
    /\ store[lastOp.user] # None
    /\ Session(lastOp.user).stage = "CONFIRM_BOOKING"
    /\ lastOp.call # None

\* a day has slots in calendar w when the API answers 200 and lists windows
HasSlots(w, d) == d \in w.avail /\ d \notin w.down /\ ~w.nodata /\ w.n > 0

\* C8: a message handled in ASK_DATE that names a date within the window
\* stores the first day, from that date to BOOKING_WINDOW_DAYS days after it,
\* that has slots, with the mapping fetched for that day, and moves to
\* ASK_SLOT; when none of these days has slots the store is left as it was.
C8_StoredDate ==
    [][(Handled(lastOp') /\ lastOp'.stage = "ASK_DATE" /\ lastOp'.message = MsgTomorrow) =>
          LET u == lastOp'.user
              w == lastOp'.world
              r == today + 1
              D == {d \in r..(r + BOOKING_WINDOW_DAYS) : HasSlots(w, d)}
          IN  IF D = {} THEN store' = store /\ StageOf(u) = "ASK_DATE"
              ELSE LET first == CHOOSE d \in D : \A e \in D : d <= e
                   IN  /\ get_slots_for_date(w, first) # EmptyDict
                       /\ store'[u] # None
                       /\ store'[u][1].state =
                             [Session(u) EXCEPT
                                 !.date = Some(IsoFormat(first)),
                                 !.slots = Some(get_slots_for_date(w, first)),
                                 !.stage = "ASK_SLOT"]]_vars

\* the next available date was substituted for a requested date without slots
C8_Witness ==
    /\ Handled(lastOp) /\ lastOp.stage = "ASK_DATE" /\ lastOp.message = MsgTomorrow
    /\ ~HasSlots(lastOp.world, today + 1)
    /\ HasSlots(lastOp.world, today + 2)
    /\ HasSlots(lastOp.world, today + 1 + BOOKING_WINDOW_DAYS)
    /\ store[lastOp.user] # None
    /\ Session(lastOp.user).stage = "ASK_SLOT"
    /\ Session(lastOp.user).date = Some(IsoFormat(today + 2))

ChoiceKeys == << <<"1">>, <<"2">>, <<"3">> >>

\* the windows the API's answer res lists for day ds, in the API's order
Listed(res, ds) ==
    IF res.status_code = 200 /\ "data" \in DOMAIN res.json /\ ds \in DOMAIN res.json["data"]
    THEN res.json["data"][ds] ELSE <<>>

\* C9: get_slots_for_date returns at most 3 entries, keyed exactly "1".."n" in
\* the order the API listed that day's windows, and the empty mapping on a
\* non-success status or an empty result.
C9_SlotKeys ==
    probe.fn = "get_slots_for_date" =>
        LET l == Listed(probe.arg, IsoFormat(ProbeDay))
            n == IF Len(l) < 3 THEN Len(l) ELSE 3
        IN  /\ DOMAIN probe.out = {ChoiceKeys[i] : i \in 1..n}
            /\ \A i \in 1..n : probe.out[ChoiceKeys[i]].iso = l[i].start

C9_Witness ==
    /\ probe.fn = "get_slots_for_date"
    /\ probe.arg.status_code = 200
    /\ Len(Listed(probe.arg, IsoFormat(ProbeDay))) = 4
    /\ Listed(probe.arg, IsoFormat(ProbeDay))[1].start
         > Listed(probe.arg, IsoFormat(ProbeDay))[2].start
    /\ Cardinality(DOMAIN probe.out) = 3

\* C10: find_next_available_date(start) never returns start: it returns the
\* first day after start, within BOOKING_WINDOW_DAYS days, that has slots,
\* with that day's mapping, and (None, {}) when none of them has.
C10_FindNext ==
    probe.fn = "find_next_available_date" =>
        LET w == probe.arg
            D == {d \in (ProbeDay + 1)..(ProbeDay + BOOKING_WINDOW_DAYS) : HasSlots(w, d)}
        IN  IF D = {} THEN probe.out = [date |-> None, slots |-> EmptyDict]
            ELSE LET first == CHOOSE d \in D : \A e \in D : d <= e
                 IN  /\ probe.out.date = Some(first)
                     /\ probe.out.slots # EmptyDict
                     /\ probe.out.slots = get_slots_for_date(w, first)

C10_Witness ==
    /\ probe.fn = "find_next_available_date"
    /\ HasSlots(probe.arg, ProbeDay)
    /\ probe.out.date = Some(ProbeDay + 2)

\* C11: the name is written only by the request handled in ASK_NAME (the one
\* that creates the session) and the e-mail only by the request handled in
\* ASK_EMAIL, each as the stripped message; no other step changes either while
\* the session lives, and a booking request carries the stored name and e-mail
C11_NameEmailFrame ==
    [][\A u \in Users :
         /\ (store[u] = None /\ store'[u] # None) =>
               /\ Handled(lastOp') /\ lastOp'.user = u /\ lastOp'.stage = "ASK_NAME"
               /\ store'[u][1].state.name = Some(Strip(lastOp'.message))
               /\ store'[u][1].state.email = None
         /\ (store[u] # None /\ store'[u] # None) =>
               /\ store'[u][1].state.name = Session(u).name
               /\ store'[u][1].state.email # Session(u).email =>
                     /\ Handled(lastOp') /\ lastOp'.user = u
                     /\ lastOp'.stage = "ASK_EMAIL"
                     /\ store'[u][1].state.email = Some(Strip(lastOp'.message))
         /\ (Handled(lastOp') /\ lastOp'.user = u /\ lastOp'.call # None) =>
               /\ lastOp'.call[1].attendee.name = Session(u).name[1]
               /\ lastOp'.call[1].attendee.email = Session(u).email[1]
      ]_vars

\* a session that went back with "no", was given a date again and still holds
\* the name and the e-mail of its first two replies
C11_Witness ==
    /\ store["u1"] # None
    /\ Session("u1").stage = "ASK_SLOT"
    /\ Session("u1").selected_slot # None
    /\ Session("u1").name = Some(Strip(MsgName))
    /\ Session("u1").email # None
    /\ Handled(lastOp) /\ lastOp.stage = "ASK_DATE"

\* C12: with overlapping invocations a step changes the stored session of a
\* user only when it is the write of an invocation for that same user, so
\* invocations for distinct users never affect each other's session; for one
\* user the late write of an invocation that read an older state can move the
\* stored stage along an edge outside StageEdges (C12_Witness)
C12_DistinctUsersIsolated ==
    [][\A v \in Users :
          store'[v] # store[v] =>
              /\ Handled(lastOp') /\ lastOp'.user = v
              /\ \E i \in Invocations :
                    /\ inflight[i] # None /\ inflight[i][1].phone = v
                    /\ inflight'[i] = None
      ]_vars

\* the write of an invocation that had read ASK_DATE lands after the session
\* reached CONFIRM_BOOKING: the stored stage goes back to ASK_SLOT
C12_Witness ==
    /\ Handled(lastOp) /\ lastOp.user = "u1" /\ lastOp.stage = "ASK_DATE"
    /\ before # None /\ before[1].state.stage = "CONFIRM_BOOKING"
    /\ store["u1"] # None /\ Session("u1").stage = "ASK_SLOT"
    /\ <<before[1].state.stage, Session("u1").stage>> \notin StageEdges

\* the "no" of an invocation that had read CONFIRM_BOOKING is saved after a
\* booking deleted the session: the session exists again, in ASK_DATE
RecreatedAfterBooking ==
    /\ Handled(lastOp) /\ lastOp.user = "u1" /\ lastOp.stage = "CONFIRM_BOOKING"
    /\ lastOp.message = MsgNo
    /\ before = None /\ posted # <<>> /\ posted[Len(posted)].status_code = 201
    /\ store["u1"] # None /\ Session("u1").stage = "ASK_DATE"

\* C13: the date stored by the request that moves a session from ASK_DATE to
\* ASK_SLOT is a day from today to BOOKING_WINDOW_DAYS after today, whether it
\* is the requested date or the one the search substituted
C13_StoredDateInWindow ==
    (Handled(lastOp) /\ lastOp.stage = "ASK_DATE" /\ lastOp.op = "save") =>
        Session(lastOp.user).date \in
            {Some(IsoFormat(d)) : d \in today..(today + BOOKING_WINDOW_DAYS)}

\* C15: every message handled for a live session restarts its expiry: after
\* the request the session, if it still exists, has its full SESSION_TTL ahead
C15_MessageRestartsExpiry ==
    (Handled(lastOp) /\ store[lastOp.user] # None) =>
        store[lastOp.user][1].age = 0

\* C14: every "yes" handled in CONFIRM_BOOKING sends the booking API one more
\* request made of nothing but start, eventTypeId and attendee (no idempotency
\* key), whatever was sent before, and a request answered "Booking failed"
\* leaves the store as it was, so the same "yes" can be sent again
C14_EveryYesPosts ==
    [][(Handled(lastOp') /\ lastOp'.stage = "CONFIRM_BOOKING"
            /\ lastOp'.message = MsgYes) =>
          /\ lastOp'.call # None
          /\ DOMAIN lastOp'.call[1] = {"start", "eventTypeId", "attendee"}
          /\ DOMAIN lastOp'.call[1].attendee = {"name", "email", "timeZone"}
          /\ posted' = Append(posted, [payload |-> lastOp'.call[1],
                                       status_code |-> lastOp'.booking.status_code])
          /\ lastOp'.reply = Some(Pending("booking failed")) => store' = store
      ]_vars

\* the API accepted a booking (200) that the handler answered "Booking failed";
\* the session stayed in CONFIRM_BOOKING, and the "yes" sent again, with no
\* other request overlapping, made the API a second, identical request, which
\* it accepted as well
C14_Witness ==
    /\ Handled(lastOp) /\ lastOp.stage = "CONFIRM_BOOKING" /\ lastOp.message = MsgYes
    /\ before # None /\ before[1].state.stage = "CONFIRM_BOOKING"
    /\ Len(posted) = 2
    /\ posted[1].payload = posted[2].payload
    /\ posted[1].status_code = 200 /\ posted[2].status_code = 201
    /\ lastOp.reply # None /\ lastOp.reply[1].status = "BOOKED"

\* C16: a request that finds a stored stage outside KnownStages is answered
\* with the generic restart reply, status PENDING, makes no booking request
\* and leaves the store as it was; such a document changes only by ageing and
\* goes only by expiry
C16_UnknownStageWedged ==
    [][/\ (Handled(lastOp') /\ lastOp'.stage \notin KnownStages) =>
             /\ store' = store
             /\ lastOp'.reply = Some(Pending("start again"))
             /\ lastOp'.op = "none" /\ lastOp'.call = None
       /\ \A u \in Users :
             (store[u] # None /\ Session(u).stage \notin KnownStages
                  /\ store'[u] # store[u]) =>
                 /\ lastOp'.kind = "tick"
                 /\ store'[u] # None => store'[u][1].state = Session(u)
      ]_vars

\* a message answered with the restart reply while the wedged document, 900 s
\* old, stays as it is
C16_Witness ==
    /\ Handled(lastOp) /\ lastOp.user = "u1" /\ lastOp.stage \in UnknownStages
    /\ lastOp.reply = Some(Pending("start again"))
    /\ store["u1"] # None
    /\ Session("u1").stage = lastOp.stage
    /\ store["u1"][1].age = TickSeconds

\* the values of a slots mapping
SlotValues(slots) == {slots[1][k] : k \in DOMAIN slots[1]}

\* C17: with requests handled one at a time, a session stored in
\* CONFIRM_BOOKING has a selected_slot that is a value of its slots mapping, and
\* the booking request carries the start of that slot, a slot of the mapping
\* and of the date the session holds now
C17_SelectedSlotCurrent ==
    [][/\ \A u \in Users :
             (store'[u] # None /\ store'[u][1].state.stage = "CONFIRM_BOOKING") =>
                 /\ store'[u][1].state.selected_slot # None
                 /\ store'[u][1].state.slots # None
                 /\ store'[u][1].state.selected_slot[1]
                        \in SlotValues(store'[u][1].state.slots)
       /\ (Handled(lastOp') /\ lastOp'.call # None) =>
             LET state == Session(lastOp'.user)
             IN  /\ state.stage = "CONFIRM_BOOKING"
                 /\ state.selected_slot[1] \in SlotValues(state.slots)
                 /\ lastOp'.call[1].start = state.selected_slot[1].iso
                 /\ state.date = Some(<<2024, state.selected_slot[1].label.month,
                                        state.selected_slot[1].label.day>>)
      ]_vars

\* after "no" and a date with other slots, the session held in ASK_SLOT a
\* selected_slot of the earlier date; the choice just handled replaced it by a
\* slot of the current mapping
C17_Witness ==
    /\ Handled(lastOp) /\ lastOp.user = "u1" /\ lastOp.stage = "ASK_SLOT"
    /\ lastOp.op = "save"
    /\ before # None
    /\ before[1].state.selected_slot # None
    /\ before[1].state.selected_slot[1] \notin SlotValues(before[1].state.slots)
    /\ store["u1"] # None /\ Session("u1").stage = "CONFIRM_BOOKING"
    /\ Session("u1").selected_slot[1] \in SlotValues(Session("u1").slots)

\* the fields a session has been given by the time it is in stage
FieldsSet(state) ==
    /\ state.stage \in KnownStages
    /\ state.stage # "ASK_NAME" => state.name # None
    /\ state.stage \notin {"ASK_NAME", "ASK_EMAIL"} => state.email # None
    /\ state.stage \in {"ASK_SLOT", "CONFIRM_BOOKING"} =>
          state.date # None /\ state.slots # None
    /\ state.stage = "CONFIRM_BOOKING" => state.selected_slot # None

\* C18: with requests handled one at a time the booking API is called only by
\* a request that finds CONFIRM_BOOKING and carries "yes", on a session whose
\* name, email, date and selected_slot are all set; a BOOKED reply comes only
\* from such a request; and every stored session holds the fields of the
\* stages it has passed, name, email, date and slot in that order
C18_BookingOnlyWhenComplete ==
    [][/\ (Handled(lastOp') /\ lastOp'.call # None) =>
             /\ lastOp'.stage = "CONFIRM_BOOKING"
             /\ Lower(Strip(lastOp'.message)) = TextYes
             /\ store[lastOp'.user] # None
             /\ Session(lastOp'.user).stage = "CONFIRM_BOOKING"
             /\ Session(lastOp'.user).name # None
             /\ Session(lastOp'.user).email # None
             /\ Session(lastOp'.user).date # None
             /\ Session(lastOp'.user).selected_slot # None
       /\ (Handled(lastOp') /\ lastOp'.reply # None
               /\ lastOp'.reply[1].status = "BOOKED") => lastOp'.call # None
       /\ \A u \in Users : store'[u] # None => FieldsSet(store'[u][1].state)
      ]_vars

\* a booking made and answered BOOKED
C18_Witness ==
    /\ Handled(lastOp) /\ lastOp.user = "u1"
    /\ lastOp.call # None
    /\ lastOp.call[1].attendee.name = Strip(MsgName)
    /\ lastOp.reply # None /\ lastOp.reply[1].status = "BOOKED"
    /\ store["u1"] = None

Booked(op) == Handled(op) /\ op.reply # None /\ op.reply[1].status = "BOOKED"

BookedSessionExisted ==
    Booked(lastOp) => (before # None /\ before[1].state.stage = "CONFIRM_BOOKING")

====
